---- MODULE Spec2Model ----
(***************************************************************************)
(* RandomPrimaryIdModel (src/random_primary.py): a Django model base class *)
(* whose save() allocates a random primary key, relying on the table's     *)
(* uniqueness constraint on the id column to detect collisions.            *)
(*                                                                         *)
(* Each process is one record (one model instance) whose save() is called  *)
(* by its own caller inside that caller's enclosing transaction; all       *)
(* processes share one table, and a row is seen by the other callers as    *)
(* soon as it is inserted: the table's uniqueness constraint decides each  *)
(* insert atomically.  Strings are TLA+ strings; the alphabets are scaled  *)
(* down (one letter, one digit) so that the keyspace is small enough to    *)
(* fill up.                                                                *)
(***************************************************************************)
EXTENDS Integers, Sequences, FiniteSets, TLC

\* ---- bounds of the model ----
MaxKeyLen == 2         \* largest CRYPT_KEY_LEN_MAX a model class sets here
MaxCalls == 2          \* calls of save() on all records together

\* The records saved concurrently, each by its own caller.
Procs == {"r1", "r2"}

VARIABLES
    CRYPT_KEY_LEN_MIN,                 \* class attribute (line 94), tunable per model class
    CRYPT_KEY_LEN_MAX,                 \* class attribute (line 95)
    KEYPREFIX,                         \* class attribute (line 92)
    KEYSUFFIX,                         \* class attribute (line 93)
    rows,                              \* the table: the set of ids of its rows
    pc,                                \* where each record's save() stands
    id,                                \* self.id
    _retry_count,                      \* self._retry_count
    kwargs,                            \* the kwargs of the running save()
    try_key_len,                       \* local of save()
    try_since_last_key_len_increase,   \* local of save()
    sid,                               \* local of save(): the savepoint of the attempt
    raised,                            \* the exception save() ended with, or NoExc
    txLog,                             \* the caller's enclosing transaction: its statements so far
    savepoints,                        \* the caller's open savepoints: sid -> length of txLog when opened
    txAborted,                         \* a statement failed and nothing was rolled back since
    calls,                             \* calls of save() on the record so far
    allocated,                         \* the record got its key from a successful allocation
    hist                               \* what happened in the running (or last) call of save()

vars == <<CRYPT_KEY_LEN_MIN, CRYPT_KEY_LEN_MAX, KEYPREFIX, KEYSUFFIX, rows, pc, id,
          _retry_count, kwargs, try_key_len, try_since_last_key_len_increase, sid,
          raised, txLog, savepoints, txAborted, calls, allocated, hist>>

\* ---- values ----

\* self.id is None or a string.
None == [isNone |-> TRUE, s |-> ""]
Str(s) == [isNone |-> FALSE, s |-> s]

\* A truth test that takes every id for unset.
MutantNeverTruthy(v) == FALSE

\* Python's truth value of self.id (line 136): None and "" are false.
Truthy(v) == ~v.isNone /\ v.s # ""

\* One element of an exception's args: a string, or an object that is no string.
StrArg(s) == [isStr |-> TRUE, v |-> s]
ObjArg(s) == [isStr |-> FALSE, v |-> s]

\* An exception: its class, its args, and (for the Store's failures) what went
\* wrong in the Store: "id" a uniqueness violation on the id column,
\* "other_column" one on another column, "fatal" anything else.
Exc(type, args, cause) == [type |-> type, args |-> args, cause |-> cause]
NoExc == Exc("", <<>>, "none")

\* ---- configuration ----

\* string.ascii_letters and string.digits, scaled down.
Letters == {"a"}
Digits == {"0"}

\* A first character drawn from the letters and the digits.
MutantFirstAnyChar == Digits \cup Letters

\* Line 96: the first character is always a letter.
_FIRSTIDCHAR == Letters

\* Line 97: letters and digits for the rest.
_IDCHARS == Digits \cup Letters

\* KEYPREFIX and KEYSUFFIX as a model class sets them: the defaults of lines
\* 92-93, or a prefix and a suffix of its own.
Affixes == {<<"", "">>, <<"prefix-", "-sfx">>}

\* The class attributes of RandomPrimaryIdModel itself, which are what the body
\* of that class sees where it defines the id field (lines 92-95).
BASE_KEYPREFIX == ""
BASE_KEYSUFFIX == ""
BASE_CRYPT_KEY_LEN_MAX == 9

\* max_length of the id column (line 102), evaluated once, in the class body of
\* RandomPrimaryIdModel; a model class that sets attributes of its own inherits
\* the field as it is.
max_length == BASE_CRYPT_KEY_LEN_MAX + 1 + Len(BASE_KEYPREFIX) + Len(BASE_KEYSUFFIX)

TypeName == "<class 'Record'>"

\* ---- str methods ----

EndsWith(msg, suffix) ==
    /\ Len(msg) >= Len(suffix)
    /\ SubSeq(msg, Len(msg) - Len(suffix) + 1, Len(msg)) = suffix

Contains(msg, part) ==
    \E i \in 1..(Len(msg) - Len(part) + 1) : SubSeq(msg, i, i + Len(part) - 1) = part

\* ---- _make_random_key ----

RECURSIVE Choices(_, _)
\* ''.join([random.choice(chars) for dummy in xrange(0, n)]): every string it can be.
Choices(chars, n) ==
    IF n <= 0 THEN {""}
    ELSE {c \o rest : c \in chars, rest \in Choices(chars, n - 1)}

\* Every key _make_random_key(key_len) can return.
_make_random_key(key_len) ==
    {KEYPREFIX \o first \o rest \o KEYSUFFIX :
        first \in _FIRSTIDCHAR, rest \in Choices(_IDCHARS, key_len - 1)}

\* The length of the generated part of a key: the key without prefix and suffix.
BodyLen(key) == Len(key) - Len(KEYPREFIX) - Len(KEYSUFFIX)

\* ---- the Store: models.Model.save() on the shared table ----

\* The IntegrityError with which each backend reports a second row with the same
\* id (MySQL, SQLite, PostgreSQL): the three shapes save() tests for.
KeyViolations ==
    { Exc("IntegrityError",
          <<ObjArg("1062"), StrArg("Duplicate entry 'k' for key 'PRIMARY'")>>, "id"),
      Exc("IntegrityError", <<StrArg("column id is not unique")>>, "id"),
      Exc("IntegrityError",
          <<StrArg("duplicate key value\nDETAIL:  Key (id)=(k) already exists.")>>, "id") }

\* Failures of the Store that are no uniqueness violation on the id column: a
\* uniqueness violation on another column (MySQL, PostgreSQL), an IntegrityError
\* without args, an IntegrityError whose only arg is an error object and no
\* string, and an error that is no IntegrityError.
OtherFailures ==
    { Exc("IntegrityError",
          <<ObjArg("1062"), StrArg("Duplicate entry 'x' for key 'email'")>>, "other_column"),
      Exc("IntegrityError",
          <<StrArg("duplicate key value\nDETAIL:  Key (email)=(x) already exists.")>>,
          "other_column"),
      Exc("IntegrityError", <<>>, "fatal"),
      Exc("IntegrityError", <<ObjArg("_Error")>>, "fatal"),
      Exc("DatabaseError", <<StrArg("statement timeout")>>, "fatal") }

\* kwargs of save(): force_insert is absent (has = FALSE) or has a value.
CallerKwargs ==
    { [has |-> FALSE, force_insert |-> FALSE],
      [has |-> TRUE, force_insert |-> FALSE],
      [has |-> TRUE, force_insert |-> TRUE] }

ForceInsert(kw) == kw.has /\ kw.force_insert

\* What super().save(*args, **kwargs) can do for a record with this key: NoExc is
\* success (an INSERT, or without force_insert an UPDATE of the row that has the
\* key); with force_insert a row with the same key is a uniqueness violation.
ModelSave(key, kw) ==
    IF ForceInsert(kw) /\ key \in rows
    THEN KeyViolations \cup OtherFailures
    ELSE {NoExc} \cup OtherFailures

\* The statement a successful save() adds to the caller's transaction.
Statement(key) == [op |-> IF key \in rows THEN "update" ELSE "insert", key |-> key]
PriorWork == [op |-> "prior", key |-> ""]

\* ---- the transaction scope ----

\* A rollback of the whole transaction instead of the savepoint.
MutantRollbackAll(stack, s) == 0

\* transaction.savepoint_rollback(sid) rolls the transaction back to the length it
\* had when savepoint sid was opened.
RollbackMark(stack, s) == stack[s]

\* The ids of the rows inserted by the statements after position mark.
InsertedAfter(log, mark) ==
    {log[i].key : i \in {j \in (mark + 1)..Len(log) : log[j].op = "insert"}}

\* ---- save(): its decisions ----

\* The caller's kwargs passed on as they are.
MutantKeepCallerKwargs(kw) == kw

\* force_insert set only where the caller did not pass it (a setdefault).
MutantForceOnlyIfAbsent(kw) == IF kw.has THEN kw ELSE [has |-> TRUE, force_insert |-> TRUE]

\* kwargs['force_insert'] = True (line 151).
InsertKwargs(kw) == [has |-> TRUE, force_insert |-> TRUE]

\* A loop that stops one length early.
MutantLoopStrict(key_len) == key_len < CRYPT_KEY_LEN_MAX

\* while try_key_len <= self.CRYPT_KEY_LEN_MAX (line 144).
LoopContinues(key_len) == key_len <= CRYPT_KEY_LEN_MAX

\* A growth test that fires one collision late.
MutantGrowsLate(since, key_len) == since > key_len

\* A growth test that never fires, as with a length of 0.
MutantNeverGrows(since, key_len) == FALSE

\* if try_since_last_key_len_increase == try_key_len (line 186).
GrowsNow(since, key_len) == since = key_len

\* A test that takes every IntegrityError message for a collision on the id column.
MutantEveryMessage(msg) == TRUE

\* The test on the message of an IntegrityError (lines 177-178).
IsIdCollision(msg) ==
    \/ EndsWith(msg, "for key 'PRIMARY'")
    \/ msg = "column id is not unique"
    \/ Contains(msg, "Key (id)=")

\* The last candidate left in self.id.
MutantKeepCandidate(candidate) == candidate

\* self.id = None (line 199).
ExhaustedId(candidate) == None

ExhaustionError ==
    Exc("IntegrityError",
        <<StrArg("Could not produce unique ID for model of type " \o TypeName)>>, "none")

\* What Python raises from inside the except clause: e.args[-1] on empty args
\* (line 176) and msg.endswith on an object that is no string (line 177).
IndexError == Exc("IndexError", <<StrArg("tuple index out of range")>>, "none")
AttributeError == Exc("AttributeError", <<StrArg("object has no attribute 'endswith'")>>, "none")

LastArg(e) == e.args[Len(e.args)]

\* What lines 160-194 do with a failure e of the insert: "retry" (the collision
\* branch) or "raise" with the exception that leaves save().
Reaction(e) ==
    IF e.type # "IntegrityError" THEN [kind |-> "raise", exc |-> e]
    ELSE IF e.args = <<>> THEN [kind |-> "raise", exc |-> IndexError]
    ELSE IF ~LastArg(e).isStr THEN [kind |-> "raise", exc |-> AttributeError]
    ELSE IF IsIdCollision(LastArg(e).v) THEN [kind |-> "retry", exc |-> NoExc]
    ELSE [kind |-> "raise", exc |-> e]

\* ---- initial states ----

RECURSIVE KeysUpTo(_)
\* Every key of a length from CRYPT_KEY_LEN_MIN to n.
KeysUpTo(n) ==
    IF n < CRYPT_KEY_LEN_MIN THEN {}
    ELSE _make_random_key(n) \cup KeysUpTo(n - 1)

\* The history of a call of save() that starts now on record p.
NewHist(p, allocating) ==
    [ entryId      |-> id[p],          \* self.id on entry
      entryLog     |-> txLog[p],       \* the enclosing transaction on entry
      entryRetry   |-> _retry_count[p],\* self._retry_count on entry
      allocating   |-> allocating,     \* the call entered the allocation loop
      forced       |-> FALSE,          \* line 151 changed the kwargs of the last attempt
      generated    |-> 0,              \* calls of _make_random_key
      inserts      |-> 0,              \* calls of super().save()
      collisions   |-> 0,              \* of them, failed with a violation on the id column
      opened       |-> 0,              \* savepoints opened
      rollbacks    |-> <<>>,           \* the savepoints rolled back, in order
      collided     |-> <<>>,           \* the savepoints of the attempts that collided
      lens         |-> <<>>,           \* the body lengths of the keys generated
      storeExc     |-> NoExc,          \* the failure of the Store that ended the call
      nonKeyFailAt |-> 0 ]             \* the attempt that failed otherwise than on the id column

\* The table starts with every key up to some length taken (the keyspace fills
\* up from the short keys), each record as constructed without an id (the empty
\* string of a CharField), and each caller's transaction with earlier work in it.
Init ==
    /\ CRYPT_KEY_LEN_MIN \in 1..MaxKeyLen
    /\ CRYPT_KEY_LEN_MAX \in CRYPT_KEY_LEN_MIN..MaxKeyLen
    /\ \E a \in Affixes : KEYPREFIX = a[1] /\ KEYSUFFIX = a[2]
    /\ \E n \in 0..CRYPT_KEY_LEN_MAX : rows = KeysUpTo(n)
    /\ pc = [p \in Procs |-> "idle"]
    /\ id = [p \in Procs |-> Str("")]
    /\ _retry_count = [p \in Procs |-> 0]
    /\ kwargs = [p \in Procs |-> [has |-> FALSE, force_insert |-> FALSE]]
    /\ try_key_len = [p \in Procs |-> 0]
    /\ try_since_last_key_len_increase = [p \in Procs |-> 0]
    /\ sid = [p \in Procs |-> 0]
    /\ raised = [p \in Procs |-> NoExc]
    /\ txLog = [p \in Procs |-> <<PriorWork>>]
    /\ savepoints = [p \in Procs |-> <<>>]
    /\ txAborted = [p \in Procs |-> FALSE]
    /\ calls = [p \in Procs |-> 0]
    /\ allocated = [p \in Procs |-> FALSE]
    /\ hist = [p \in Procs |-> NewHist(p, FALSE)]

\* ---- save() ----

RECURSIVE TotalCalls(_)
TotalCalls(ps) ==
    IF ps = {} THEN 0
    ELSE LET p == CHOOSE q \in ps : TRUE IN calls[p] + TotalCalls(ps \ {p})

\* The caller of record p may call save(): no call on p is running.
Callable(p) == pc[p] \in {"idle", "returned", "raised"} /\ TotalCalls(Procs) < MaxCalls

\* Lines 136-140: the record has an id; one call of super().save() with the
\* caller's kwargs, whose exception, if any, leaves save() as it is.
PassThrough(p) ==
    /\ Callable(p)
    /\ Truthy(id[p])
    /\ \E kw \in CallerKwargs : \E out \in ModelSave(id[p].s, kw) :
        /\ kwargs' = [kwargs EXCEPT ![p] = kw]
        /\ hist' = [hist EXCEPT ![p] =
                       [NewHist(p, FALSE) EXCEPT !.inserts = 1, !.storeExc = out]]
        /\ raised' = [raised EXCEPT ![p] = out]
        /\ IF out = NoExc
           THEN /\ rows' = rows \cup {id[p].s}
                /\ txLog' = [txLog EXCEPT ![p] = Append(@, Statement(id[p].s))]
                /\ pc' = [pc EXCEPT ![p] = "returned"]
                /\ UNCHANGED txAborted
           ELSE /\ txAborted' = [txAborted EXCEPT ![p] = TRUE]
                /\ pc' = [pc EXCEPT ![p] = "raised"]
                /\ UNCHANGED <<rows, txLog>>
    /\ calls' = [calls EXCEPT ![p] = @ + 1]
    /\ UNCHANGED <<CRYPT_KEY_LEN_MIN, CRYPT_KEY_LEN_MAX, KEYPREFIX, KEYSUFFIX, id,
                   _retry_count, try_key_len, try_since_last_key_len_increase, sid,
                   savepoints, allocated>>

\* The key length kept on the record from its last call of save().
MutantCarriedKeyLen(p) == IF calls[p] = 0 THEN CRYPT_KEY_LEN_MIN ELSE try_key_len[p]

\* try_key_len = self.CRYPT_KEY_LEN_MIN (line 142), a local of the call on p.
FirstKeyLen(p) == CRYPT_KEY_LEN_MIN

\* Lines 136, 142-143: the record has no id; the allocation starts.
BeginAllocation(p) ==
    /\ Callable(p)
    /\ ~Truthy(id[p])
    /\ \E kw \in CallerKwargs :
        /\ kwargs' = [kwargs EXCEPT ![p] = kw]
        /\ hist' = [hist EXCEPT ![p] = NewHist(p, TRUE)]
    /\ try_key_len' = [try_key_len EXCEPT ![p] = FirstKeyLen(p)]
    /\ try_since_last_key_len_increase' = [try_since_last_key_len_increase EXCEPT ![p] = 0]
    /\ raised' = [raised EXCEPT ![p] = NoExc]
    /\ pc' = [pc EXCEPT ![p] = "loop"]
    /\ calls' = [calls EXCEPT ![p] = @ + 1]
    /\ UNCHANGED <<CRYPT_KEY_LEN_MIN, CRYPT_KEY_LEN_MAX, KEYPREFIX, KEYSUFFIX, rows, id,
                   _retry_count, sid, txLog, savepoints, txAborted, allocated>>

\* Candidates kept apart from the keys in the table and from the candidate
\* tried last.
MutantUntriedCandidates(p) == _make_random_key(try_key_len[p]) \ (rows \cup {id[p].s})

\* _id = self._make_random_key(key_len=try_key_len) (line 146): what the call on
\* p may get as its next candidate.
Candidates(p) == _make_random_key(try_key_len[p])

\* Lines 144-156: the loop goes on; a key is generated, a savepoint opened,
\* force_insert set and the key assigned to self.id.
Generate(p) ==
    /\ pc[p] = "loop"
    /\ LoopContinues(try_key_len[p])
    /\ \E _id \in Candidates(p) :
        /\ id' = [id EXCEPT ![p] = Str(_id)]
        /\ hist' = [hist EXCEPT ![p].generated = @ + 1,
                                ![p].opened = @ + 1,
                                ![p].forced = InsertKwargs(kwargs[p]) # kwargs[p],
                                ![p].lens = Append(@, BodyLen(_id))]
    /\ sid' = [sid EXCEPT ![p] = Len(savepoints[p]) + 1]
    /\ savepoints' = [savepoints EXCEPT ![p] = Append(@, Len(txLog[p]))]
    /\ kwargs' = [kwargs EXCEPT ![p] = InsertKwargs(@)]
    /\ pc' = [pc EXCEPT ![p] = "insert"]
    /\ UNCHANGED <<CRYPT_KEY_LEN_MIN, CRYPT_KEY_LEN_MAX, KEYPREFIX, KEYSUFFIX, rows,
                   _retry_count, try_key_len, try_since_last_key_len_increase, raised,
                   txLog, txAborted, calls, allocated>>

\* Lines 157-158: super().save() succeeds; break.
InsertSucceeds(p) ==
    /\ pc[p] = "insert"
    /\ NoExc \in ModelSave(id[p].s, kwargs[p])
    /\ rows' = rows \cup {id[p].s}
    /\ txLog' = [txLog EXCEPT ![p] = Append(@, Statement(id[p].s))]
    /\ hist' = [hist EXCEPT ![p].inserts = @ + 1]
    /\ allocated' = [allocated EXCEPT ![p] = TRUE]
    /\ pc' = [pc EXCEPT ![p] = "returned"]
    /\ UNCHANGED <<CRYPT_KEY_LEN_MIN, CRYPT_KEY_LEN_MAX, KEYPREFIX, KEYSUFFIX, id,
                   _retry_count, kwargs, try_key_len, try_since_last_key_len_increase,
                   sid, raised, savepoints, txAborted, calls>>

\* What the call has seen once the Store answered the insert with failure e.
Failed(h, e, s) ==
    [h EXCEPT !.inserts = @ + 1,
              !.collisions = IF e.cause = "id" THEN @ + 1 ELSE @,
              !.collided = IF e.cause = "id" THEN Append(@, s) ELSE @,
              !.nonKeyFailAt = IF e.cause # "id" THEN h.inserts + 1 ELSE @]

\* Lines 157, 160-191: super().save() fails with an IntegrityError whose message is
\* one of a collision on the id column; the savepoint is rolled back, the counters
\* move and the loop goes on.
InsertCollides(p) ==
    /\ pc[p] = "insert"
    /\ \E e \in ModelSave(id[p].s, kwargs[p]) \ {NoExc} :
        /\ Reaction(e).kind = "retry"
        /\ hist' = [hist EXCEPT ![p] =
                       [Failed(@, e, sid[p]) EXCEPT !.rollbacks = Append(@, sid[p])]]
    /\ LET mark == RollbackMark(savepoints[p], sid[p]) IN
        /\ txLog' = [txLog EXCEPT ![p] = SubSeq(@, 1, mark)]
        /\ rows' = rows \ InsertedAfter(txLog[p], mark)
    /\ savepoints' = [savepoints EXCEPT ![p] = SubSeq(@, 1, sid[p])]
    /\ txAborted' = [txAborted EXCEPT ![p] = FALSE]
    /\ _retry_count' = [_retry_count EXCEPT ![p] = @ + 1]
    /\ IF GrowsNow(try_since_last_key_len_increase[p] + 1, try_key_len[p])
       THEN /\ try_key_len' = [try_key_len EXCEPT ![p] = @ + 1]
            /\ try_since_last_key_len_increase' =
                   [try_since_last_key_len_increase EXCEPT ![p] = 0]
       ELSE /\ try_since_last_key_len_increase' =
                   [try_since_last_key_len_increase EXCEPT ![p] = @ + 1]
            /\ UNCHANGED try_key_len
    /\ pc' = [pc EXCEPT ![p] = "loop"]
    /\ UNCHANGED <<CRYPT_KEY_LEN_MIN, CRYPT_KEY_LEN_MAX, KEYPREFIX, KEYSUFFIX, id,
                   kwargs, sid, raised, calls, allocated>>

\* Lines 157, 160-178, 192-194: super().save() fails otherwise; an exception leaves
\* save(): the failure itself if it is no IntegrityError or its message is not one
\* of a collision on the id column, Python's own if the message cannot be read.
InsertFails(p) ==
    /\ pc[p] = "insert"
    /\ \E e \in ModelSave(id[p].s, kwargs[p]) \ {NoExc} :
        /\ Reaction(e).kind = "raise"
        /\ hist' = [hist EXCEPT ![p] = [Failed(@, e, sid[p]) EXCEPT !.storeExc = e]]
        /\ raised' = [raised EXCEPT ![p] = Reaction(e).exc]
    /\ txAborted' = [txAborted EXCEPT ![p] = TRUE]
    /\ pc' = [pc EXCEPT ![p] = "raised"]
    /\ UNCHANGED <<CRYPT_KEY_LEN_MIN, CRYPT_KEY_LEN_MAX, KEYPREFIX, KEYSUFFIX, rows, id,
                   _retry_count, kwargs, try_key_len, try_since_last_key_len_increase,
                   sid, txLog, savepoints, calls, allocated>>

\* Lines 144, 196-200: the loop ends without a break; self.id is reset and the
\* exhaustion error raised.
Exhaust(p) ==
    /\ pc[p] = "loop"
    /\ ~LoopContinues(try_key_len[p])
    /\ id' = [id EXCEPT ![p] = ExhaustedId(@)]
    /\ raised' = [raised EXCEPT ![p] = ExhaustionError]
    /\ pc' = [pc EXCEPT ![p] = "raised"]
    /\ UNCHANGED <<CRYPT_KEY_LEN_MIN, CRYPT_KEY_LEN_MAX, KEYPREFIX, KEYSUFFIX, rows,
                   _retry_count, kwargs, try_key_len, try_since_last_key_len_increase,
                   sid, txLog, savepoints, txAborted, calls, allocated, hist>>

Next ==
    \E p \in Procs :
        \/ PassThrough(p)
        \/ BeginAllocation(p)
        \/ Generate(p)
        \/ InsertSucceeds(p)
        \/ InsertCollides(p)
        \/ InsertFails(p)
        \/ Exhaust(p)

Spec == Init /\ [][Next]_vars

\* ---- properties ----

RECURSIVE SumRange(_, _)
\* lo + (lo + 1) + ... + hi.
SumRange(lo, hi) == IF hi < lo THEN 0 ELSE hi + SumRange(lo, hi - 1)

\* The attempts of a full allocation: the sum of the lengths from the minimum to
\* the maximum.
Budget == SumRange(CRYPT_KEY_LEN_MIN, CRYPT_KEY_LEN_MAX)

\* The running or last call on p entered the allocation loop.
Allocating(p) == calls[p] > 0 /\ hist[p].allocating

\* The call on p ended with the exhaustion error: it was allocating, it raised,
\* and no attempt of it failed otherwise than by a collision on the id column.
EndedExhausted(p) ==
    Allocating(p) /\ pc[p] = "raised" /\ hist[p].nonKeyFailAt = 0

\* The keys of the records that were allocated successfully are pairwise distinct.
AllocatedKeysDistinct ==
    \A p, q \in Procs : (p # q /\ allocated[p] /\ allocated[q]) => id[p].s # id[q].s

\* A step of p's save(): an insert of a key that already has a row does not
\* succeed and adds no row, and if the Store answers it with a violation on the
\* id column p is back in the loop; a step from the loop to an insert has
\* generated a key anew.
RaceStep(p) ==
    /\ (pc[p] = "insert" /\ pc'[p] # "insert" /\ id[p].s \in rows) =>
          /\ pc'[p] # "returned"
          /\ ~allocated'[p]
          /\ rows' = rows
          /\ hist'[p].collisions > hist[p].collisions => pc'[p] = "loop"
    /\ (pc[p] = "loop" /\ pc'[p] = "insert") =>
          /\ hist'[p].generated = hist[p].generated + 1
          /\ id'[p].s \in _make_random_key(try_key_len[p])

\* C1: with records saved concurrently on one table, the keys of the records that
\* were allocated successfully are pairwise distinct in every state; an insert of
\* a key that already has a row never succeeds, and when the Store answers it with
\* a violation on the id column the loser goes back to the loop, whose next
\* attempt generates a key anew.
C1_UniqueKeysUnderRaces ==
    /\ []AllocatedKeysDistinct
    /\ [][\A p \in Procs : RaceStep(p)]_vars

\* Two records went for the same key: one got it, the other collided on it and
\* is back in the loop.
C1_Witness ==
    \E p, q \in Procs :
        /\ p # q /\ allocated[q] /\ Allocating(q)
        /\ Allocating(p) /\ pc[p] = "loop" /\ hist[p].collisions > 0
        /\ id[p] = id[q]

\* C2: while every insert of an allocation has collided on the id column, the loop
\* goes on exactly as long as fewer than Budget attempts were made; and a call that
\* ended with the exhaustion error made exactly Budget attempts, each of which
\* generated a key and collided on the id column.
C2_ExhaustionAfterBudget ==
    \A p \in Procs : Allocating(p) =>
        /\ hist[p].inserts <= Budget
        /\ (pc[p] = "loop" /\ hist[p].collisions = hist[p].inserts) =>
              ((try_key_len[p] <= CRYPT_KEY_LEN_MAX) <=> (hist[p].inserts < Budget))
        /\ EndedExhausted(p) =>
              /\ raised[p] = ExhaustionError
              /\ hist[p].inserts = Budget
              /\ hist[p].collisions = Budget
              /\ hist[p].generated = Budget

\* An allocation from length 1 to length 2 or more ended exhausted.
C2_Witness ==
    \E p \in Procs :
        /\ EndedExhausted(p)
        /\ CRYPT_KEY_LEN_MIN < CRYPT_KEY_LEN_MAX
        /\ hist[p].inserts >= 3

\* The key length of attempt number i of an allocation: the k for which i lies
\* in the k attempts that follow the attempts at the lengths below k (0: none).
ExpectedLen(i) ==
    LET ks == {k \in CRYPT_KEY_LEN_MIN..CRYPT_KEY_LEN_MAX :
                 /\ SumRange(CRYPT_KEY_LEN_MIN, k - 1) < i
                 /\ i <= SumRange(CRYPT_KEY_LEN_MIN, k)}
    IN IF ks = {} THEN 0 ELSE CHOOSE k \in ks : TRUE

\* C3: attempt number i of an allocation generates a key body of ExpectedLen(i)
\* characters: k attempts at length k, then length k + 1; and the counter of the
\* attempts at the current length is the number of collisions since the length
\* was reached, below the length while the loop goes on.
C3_LengthGrowsAfterLenCollisions ==
    \A p \in Procs : Allocating(p) =>
        /\ \A i \in 1..Len(hist[p].lens) : hist[p].lens[i] = ExpectedLen(i)
        /\ pc[p] \in {"loop", "insert"} =>
              /\ try_since_last_key_len_increase[p] =
                     hist[p].collisions - SumRange(CRYPT_KEY_LEN_MIN, try_key_len[p] - 1)
              /\ try_since_last_key_len_increase[p] >= 0
              /\ try_key_len[p] <= CRYPT_KEY_LEN_MAX =>
                     try_since_last_key_len_increase[p] < try_key_len[p]
        /\ pc[p] = "insert" => hist[p].lens[Len(hist[p].lens)] = try_key_len[p]

\* After a collision at one length the next attempt was at the next length, and
\* the attempt after that at the same length again.
C3_Witness ==
    \E p \in Procs :
        /\ Allocating(p)
        /\ Len(hist[p].lens) >= 3
        /\ hist[p].lens[2] = hist[p].lens[1] + 1
        /\ hist[p].lens[3] = hist[p].lens[2]

\* C4: once attempt number i of an allocation failed otherwise than by a
\* uniqueness violation on the id column, save() has ended with an exception and
\* has generated i keys and made i inserts, no more.
C4_OtherFailureEndsAllocation ==
    \A p \in Procs : (Allocating(p) /\ hist[p].nonKeyFailAt > 0) =>
        /\ pc[p] = "raised"
        /\ hist[p].inserts = hist[p].nonKeyFailAt
        /\ hist[p].generated = hist[p].nonKeyFailAt

\* The first attempt failed with a uniqueness violation on another column.
C4_Witness ==
    \E p \in Procs :
        /\ Allocating(p)
        /\ hist[p].nonKeyFailAt = 1
        /\ hist[p].storeExc.cause = "other_column"
        /\ pc[p] = "raised"

\* C5: when save() ended with an exception other than the exhaustion error, the
\* exception is the failure the Store reported.
C5_FailurePropagatedUnchanged ==
    \A p \in Procs : (pc[p] = "raised" /\ ~EndedExhausted(p)) =>
        raised[p] = hist[p].storeExc

\* C6: a call of save() on a record whose id is a non-empty string does not enter
\* the allocation loop: it makes one call of super().save(), generates no key,
\* opens no savepoint, rolls nothing back, counts no retry and leaves self.id as
\* it was, and it ends returning or with the Store's failure.
C6_PassThrough ==
    \A p \in Procs :
        (calls[p] > 0 /\ ~hist[p].entryId.isNone /\ hist[p].entryId.s # "") =>
            /\ ~hist[p].allocating
            /\ pc[p] \in {"returned", "raised"}
            /\ hist[p].inserts = 1
            /\ hist[p].generated = 0
            /\ hist[p].opened = 0
            /\ hist[p].rollbacks = <<>>
            /\ _retry_count[p] = hist[p].entryRetry
            /\ id[p] = hist[p].entryId
            /\ raised[p] = hist[p].storeExc
            /\ (pc[p] = "returned") <=> (hist[p].storeExc = NoExc)

\* A record that has its key was saved again with force_insert and the Store
\* answered with a violation on the id column.
C6_Witness ==
    \E p \in Procs :
        /\ calls[p] = 2
        /\ Truthy(hist[p].entryId)
        /\ hist[p].storeExc.cause = "id"
        /\ pc[p] = "raised"

\* The string s from position i to position j.
Part(s, i, j) == SubSeq(s, i, j)

\* C7: the key of a record that was allocated successfully is the prefix, one
\* letter, n - 1 letters or digits and the suffix, for an n from the minimum to
\* the maximum length.
C7_KeyShape ==
    \A p \in Procs : allocated[p] =>
        /\ ~id[p].isNone
        /\ LET key == id[p].s
               n == Len(key) - Len(KEYPREFIX) - Len(KEYSUFFIX)
               body == Part(key, Len(KEYPREFIX) + 1, Len(key) - Len(KEYSUFFIX))
           IN /\ CRYPT_KEY_LEN_MIN <= n /\ n <= CRYPT_KEY_LEN_MAX
              /\ Part(key, 1, Len(KEYPREFIX)) = KEYPREFIX
              /\ Part(key, Len(key) - Len(KEYSUFFIX) + 1, Len(key)) = KEYSUFFIX
              /\ Part(body, 1, 1) \in Letters
              /\ \A i \in 2..n : Part(body, i, i) \in Letters \cup Digits

\* A record got a key of two or more characters with a prefix and a suffix.
C7_Witness ==
    \E p \in Procs :
        /\ allocated[p] /\ pc[p] = "returned" /\ Allocating(p)
        /\ KEYPREFIX # ""
        /\ BodyLen(id[p].s) >= 2

\* C8: when save() ended with the exhaustion error, self.id is unset and the
\* error is an IntegrityError whose message names the type of the record.
C8_IdResetOnExhaustion ==
    \A p \in Procs : EndedExhausted(p) =>
        /\ id[p].isNone \/ id[p].s = ""
        /\ raised[p].type = "IntegrityError"
        /\ Len(raised[p].args) = 1
        /\ Contains(raised[p].args[1].v, TypeName)

\* An allocation ended exhausted after it had generated candidates.
C8_Witness ==
    \E p \in Procs : EndedExhausted(p) /\ hist[p].generated >= 1 /\ id[p] = None

\* C9: an allocation opens one savepoint per key it generates, before the insert;
\* the savepoints it rolls back are those of the attempts that collided on the id
\* column, each once and in order; and the statements the caller's transaction
\* held when save() was called are still in it.
C9_OneRollbackPerCollision ==
    \A p \in Procs :
        /\ Len(txLog[p]) >= Len(hist[p].entryLog)
        /\ SubSeq(txLog[p], 1, Len(hist[p].entryLog)) = hist[p].entryLog
        /\ Allocating(p) =>
              /\ hist[p].opened = hist[p].generated
              /\ hist[p].opened = hist[p].inserts + (IF pc[p] = "insert" THEN 1 ELSE 0)
              /\ pc[p] = "insert" => sid[p] = Len(savepoints[p])
              /\ hist[p].rollbacks = hist[p].collided
              /\ Len(hist[p].rollbacks) = hist[p].collisions
              /\ \A i, j \in 1..Len(hist[p].rollbacks) :
                     i < j => hist[p].rollbacks[i] < hist[p].rollbacks[j]

\* Two attempts of one allocation collided and were rolled back, in a transaction
\* that held earlier work.
C9_Witness ==
    \E p \in Procs :
        /\ Allocating(p)
        /\ Len(hist[p].rollbacks) >= 2
        /\ hist[p].entryLog # <<>>

\* C10: when an insert of an allocation has failed and save() is back in the loop
\* for the next attempt, or has ended handing the Store's failure to the caller,
\* the savepoint opened for that attempt has been rolled back and the caller's
\* transaction is not left cancelled.
C10_FailedInsertRolledBack ==
    \A p \in Procs :
        ( /\ Allocating(p)
          /\ hist[p].inserts > 0
          /\ \/ pc[p] = "loop"
             \/ pc[p] = "raised" /\ raised[p] = hist[p].storeExc ) =>
            /\ \E i \in 1..Len(hist[p].rollbacks) : hist[p].rollbacks[i] = sid[p]
            /\ ~txAborted[p]

\* The statements the call in flight or last ended on p has added to the caller's
\* transaction.
AddedByCall(p) ==
    SubSeq(txLog[p], Len(hist[p].entryLog) + 1, Len(txLog[p]))

\* C11: every insert an allocation issues has force_insert set to True, whatever
\* the caller passed to save(): an insert of a key that has a row cannot succeed,
\* and no statement the allocation adds to the transaction is an update of an
\* existing row.
C11_InsertsForced ==
    \A p \in Procs :
        Allocating(p) =>
            /\ pc[p] = "insert" =>
                  /\ kwargs[p] = [has |-> TRUE, force_insert |-> TRUE]
                  /\ id[p].s \in rows => NoExc \notin ModelSave(id[p].s, kwargs[p])
            /\ \A i \in 1..Len(AddedByCall(p)) : AddedByCall(p)[i].op = "insert"

\* The caller did not ask for an insert, line 151 changed the kwargs, and the
\* insert of a key that was taken came back as a collision, not as an update.
C11_Witness ==
    \E p \in Procs :
        /\ Allocating(p)
        /\ pc[p] = "loop"
        /\ hist[p].generated = 1
        /\ hist[p].forced
        /\ hist[p].collisions = 1
        /\ id[p].s \in rows

\* The allocation on p has started and generated no key yet.
AtStart(p) == Allocating(p) /\ pc[p] = "loop" /\ hist[p].generated = 0

\* C12 (as stated): every call that allocates starts with try_key_len at the
\* minimum and no attempt at that length, and its retry counter counts the
\* collisions of that call only.
C12_AttemptStateFresh ==
    \A p \in Procs :
        /\ AtStart(p) =>
              /\ try_key_len[p] = CRYPT_KEY_LEN_MIN
              /\ try_since_last_key_len_increase[p] = 0
        /\ Allocating(p) => _retry_count[p] = hist[p].collisions

\* C12 (amended): every call that allocates starts with try_key_len at the
\* minimum and no attempt at that length, and its first key has the minimum
\* length; the retry counter belongs to the record, is 0 before its first call
\* and grows by the collisions of each call on top of what the earlier calls on
\* the record left in it.
C12_LengthStateFreshRetriesKept ==
    \A p \in Procs :
        /\ AtStart(p) =>
              /\ try_key_len[p] = CRYPT_KEY_LEN_MIN
              /\ try_since_last_key_len_increase[p] = 0
        /\ Allocating(p) =>
              /\ hist[p].lens # <<>> => hist[p].lens[1] = CRYPT_KEY_LEN_MIN
              /\ _retry_count[p] = hist[p].entryRetry + hist[p].collisions
        /\ calls[p] <= 1 => hist[p].entryRetry = 0

\* A record whose first allocation collided and ran out of keys is saved again:
\* the second allocation started with the collisions of the first in the retry
\* counter, began at the minimum length and has collided too.
C12_Witness ==
    \E p \in Procs :
        /\ calls[p] = 2
        /\ Allocating(p)
        /\ hist[p].entryRetry >= 1
        /\ hist[p].lens # <<>>
        /\ hist[p].collisions >= 1

\* A step of the call of save() that runs on p.
CallStep(p) ==
    \/ Generate(p)
    \/ InsertSucceeds(p)
    \/ InsertCollides(p)
    \/ InsertFails(p)
    \/ Exhaust(p)

\* The call on p is in the allocation loop.
Running(p) == Allocating(p) /\ pc[p] \in {"loop", "insert"}

\* An allocation has generated and inserted no more keys than the sum of the
\* lengths, while it runs it has a step to take, and once it has ended it has
\* ended in one of success, exhaustion or a failure of the Store.
BoundedAndLive(p) ==
    Allocating(p) =>
        /\ hist[p].generated <= Budget
        /\ hist[p].inserts <= hist[p].generated
        /\ Running(p) => ENABLED CallStep(p)
        /\ pc[p] \in {"loop", "insert", "returned", "raised"}
        /\ pc[p] = "raised" =>
              \/ raised[p] = ExhaustionError /\ hist[p].nonKeyFailAt = 0
              \/ raised[p] # NoExc /\ hist[p].nonKeyFailAt = hist[p].inserts

\* A step of a running allocation ends the call or adds one to the keys
\* generated plus the inserts answered.
Advances(p) ==
    (Running(p) /\ <<pc[p], hist[p]>> # <<pc'[p], hist'[p]>>) =>
        \/ pc'[p] \in {"returned", "raised"}
        \/ hist'[p].generated + hist'[p].inserts = hist[p].generated + hist[p].inserts + 1

\* C13: with a minimum length of at least 1 and a maximum no smaller, whatever
\* the Store answers, save() on a record without an id cannot loop forever: a
\* running allocation always has a step, every step ends it or uses up one of at
\* most sum(min..max) key generations and as many inserts, and it ends in
\* success, exhaustion or a fatal error.
C13_Terminates ==
    /\ [](\A p \in Procs : BoundedAndLive(p))
    /\ [][\A p \in Procs : Advances(p)]_vars

\* An allocation over two lengths succeeded with the last insert the bound
\* allows.
C13_Witness ==
    \E p \in Procs :
        /\ Allocating(p)
        /\ pc[p] = "returned"
        /\ CRYPT_KEY_LEN_MIN < CRYPT_KEY_LEN_MAX
        /\ hist[p].inserts = Budget

\* The Store answers the insert of p with a violation on the id column.
CollisionStep(p) ==
    pc[p] = "insert" /\ hist'[p].collisions = hist[p].collisions + 1

\* What holds when the allocation on p has generated a key: the length is within
\* the bounds, fewer attempts than the length were made at it, and the key has
\* that length.
AtGeneratedKey(p) ==
    (Allocating(p) /\ pc[p] = "insert") =>
        /\ CRYPT_KEY_LEN_MIN <= try_key_len[p]
        /\ try_key_len[p] <= CRYPT_KEY_LEN_MAX
        /\ 0 <= try_since_last_key_len_increase[p]
        /\ try_since_last_key_len_increase[p] < try_key_len[p]
        /\ BodyLen(id[p].s) = try_key_len[p]

\* Within one call the length stays or grows by one, and the retry counter grows
\* by one with a collision on the id column and stays otherwise.
CountersStep(p) ==
    /\ (Running(p) /\ calls'[p] = calls[p]) =>
          try_key_len'[p] \in {try_key_len[p], try_key_len[p] + 1}
    /\ _retry_count'[p] = _retry_count[p] + (IF CollisionStep(p) THEN 1 ELSE 0)

\* C14: whenever the allocation loop has generated a key, min <= try_key_len <= max
\* and 0 <= try_since_last_key_len_increase < try_key_len; over the attempts of a
\* call try_key_len never decreases and grows by at most 1 from one attempt to
\* the next, and the retry counter grows by exactly 1 with each key collision and
\* at no other step.
C14_LoopInvariants ==
    /\ [](\A p \in Procs : AtGeneratedKey(p))
    /\ [][\A p \in Procs : CountersStep(p)]_vars

\* The last attempt a call can make: the maximum length, above the minimum, with
\* all attempts at it but one used, and every earlier attempt counted as a retry.
C14_Witness ==
    \E p \in Procs :
        /\ Allocating(p)
        /\ pc[p] = "insert"
        /\ CRYPT_KEY_LEN_MIN < try_key_len[p]
        /\ try_key_len[p] = CRYPT_KEY_LEN_MAX
        /\ try_since_last_key_len_increase[p] = try_key_len[p] - 1
        /\ _retry_count[p] = Budget - 1

\* Some key of every length from the minimum to the maximum has no row.
UnusedKeysAtEveryLength ==
    \A n \in CRYPT_KEY_LEN_MIN..CRYPT_KEY_LEN_MAX : _make_random_key(n) \ rows # {}

\* C15: the allocator keeps no memory of the candidates it tried and does not
\* look at the table before it picks one: at every attempt every key of the
\* current length may be the next candidate, whether it has a row, whether the
\* call tried it before. (So a call may try one key twice, and may run out of
\* attempts while keys of every length are unused: the witness.)
C15_NoMemoryOfCandidates ==
    \A p \in Procs :
        (Running(p) /\ pc[p] = "loop" /\ LoopContinues(try_key_len[p])) =>
            \A k \in _make_random_key(try_key_len[p]) :
                ENABLED (Generate(p) /\ id'[p] = Str(k))

\* The keys that have a row. Rows are never removed, and a candidate collides
\* only if it has a row: a call with more collisions than there are taken keys
\* has tried one of them more than once.
TakenKeys == rows \cap KeysUpTo(CRYPT_KEY_LEN_MAX)

\* A call raised the exhaustion error after more collisions than there are taken
\* keys, so with a key tried twice, while keys of every length from the minimum
\* to the maximum had no row.
C15_Witness ==
    \E p \in Procs :
        /\ EndedExhausted(p)
        /\ raised[p] = ExhaustionError
        /\ hist[p].collisions > Cardinality(TakenKeys)
        /\ UnusedKeysAtEveryLength

\* What the allocation on p has done to the table, as far as a state shows it: a
\* call that returned has added one statement, the insert of the record's key,
\* which has the length of the last candidate and has a row; a call that runs or
\* has raised has added none.
RowsOfCall(p) ==
    Allocating(p) =>
        /\ pc[p] = "returned" =>
              /\ AddedByCall(p) = <<[op |-> "insert", key |-> id[p].s]>>
              /\ id[p].s \in rows
              /\ BodyLen(id[p].s) = hist[p].lens[Len(hist[p].lens)]
        /\ pc[p] # "returned" => txLog[p] = hist[p].entryLog

\* A step of the allocation on p: if it returns, the table gains the one row of
\* the candidate, which had none and stays the record's id; any other step
\* leaves the rows as they are.
RowsStep(p) ==
    (Running(p) /\ <<pc[p], hist[p]>> # <<pc'[p], hist'[p]>>) =>
        IF pc'[p] = "returned"
        THEN /\ id[p].s \notin rows
             /\ rows' = rows \cup {id[p].s}
             /\ id'[p] = id[p]
        ELSE rows' = rows

\* C16: a call of save() on a record without an id adds a row to the table if
\* and only if it returns: it then adds exactly one row, whose key is the
\* record's id on return, the last candidate generated; a call that ends in
\* exhaustion or with a failure of the Store, and every attempt that collides,
\* leaves the rows as they were.
C16_RowAddedIffReturned ==
    /\ [](\A p \in Procs : RowsOfCall(p))
    /\ [][\A p \in Procs : RowsStep(p)]_vars

\* One record's allocation collided and then returned with its one row,
\* and the allocation of another ended with an exception and no row.
C16_Witness ==
    \E p, q \in Procs :
        /\ Allocating(p) /\ pc[p] = "returned" /\ hist[p].collisions >= 1
        /\ Len(AddedByCall(p)) = 1
        /\ Allocating(q) /\ pc[q] = "raised" /\ hist[q].inserts >= 1
        /\ AddedByCall(q) = <<>>

\* The call on p ended with an exception of a failed insert, not by exhaustion.
EndedFatal(p) ==
    Allocating(p) /\ pc[p] = "raised" /\ hist[p].nonKeyFailAt > 0

\* After a fatal end the record still holds the candidate of the failed attempt.
CandidateKept(p) ==
    EndedFatal(p) =>
        /\ Truthy(id[p])
        /\ id[p].s \in _make_random_key(hist[p].lens[Len(hist[p].lens)])

\* The step that starts the next call of save() on p: after a fatal end it is
\* the pass-through of lines 136-140 with the candidate as the id, one call of
\* super().save() and no key generated; after exhaustion it is the start of a new
\* allocation at the minimum length.
NextCallStep(p) ==
    (calls'[p] = calls[p] + 1) =>
        /\ EndedFatal(p) =>
              /\ ~hist'[p].allocating
              /\ hist'[p].entryId = id[p]
              /\ id'[p] = id[p]
              /\ hist'[p].inserts = 1
              /\ hist'[p].generated = 0
        /\ EndedExhausted(p) =>
              /\ hist'[p].allocating
              /\ pc'[p] = "loop"
              /\ try_key_len'[p] = CRYPT_KEY_LEN_MIN
              /\ try_since_last_key_len_increase'[p] = 0

\* C17: when save() ends with a fatal failure of the Store the record's id is
\* not cleared but still holds the candidate of the failed attempt, so the next
\* save() on the record takes the pass-through path with that candidate and
\* starts no allocation; after exhaustion the next save() starts a new allocation
\* at the minimum length.
C17_CandidateKeptAfterFatal ==
    /\ [](\A p \in Procs : CandidateKept(p))
    /\ [][\A p \in Procs : NextCallStep(p)]_vars

\* A record that was never allocated a key, whose first save() ended with a
\* fatal failure, was saved again: the second call passed through and the
\* candidate of the failed attempt now has a row.
C17_Witness ==
    \E p \in Procs :
        /\ calls[p] = 2
        /\ ~allocated[p]
        /\ ~hist[p].allocating
        /\ Truthy(hist[p].entryId)
        /\ pc[p] = "returned"
        /\ id[p].s \in rows

\* C18: for every KEYPREFIX, KEYSUFFIX, CRYPT_KEY_LEN_MIN and CRYPT_KEY_LEN_MAX a
\* model class sets, every candidate key the allocation loop generates is no
\* longer than the max_length declared for the id column.
C18_KeyFitsColumn ==
    \A p \in Procs :
        (Allocating(p) /\ pc[p] = "insert") => Len(id[p].s) <= max_length

====
